---- MODULE Spec2Model ----
(***************************************************************************)
(* State-machine model of the HLS accelerator: the playlist rewriter       *)
(* (internal/m3u8/rewriter.go), the task store and orchestrator (package   *)
(* task), the request router (internal/proxy/server.go) and the aria2      *)
(* client (internal/downloader/aria2.go).  Every HTTP request runs on its  *)
(* own goroutine; each database statement, file-system call and RPC is one *)
(* atomic step, and nothing is held across two of them.                    *)
(***************************************************************************)
EXTENDS Integers, Sequences, FiniteSets, TLC

\* ---------------------------------------------------------------- bounds
Procs == {"w1", "w2"}        \* goroutines serving requests concurrently
MaxGid == 2                  \* jobs the engine accepts in one behaviour
MaxLen == 3                  \* entries of a media playlist given to the rewriter alone
MaxURL == 3                  \* characters of a source URL after its scheme and host

\* The requests of one behaviour, by kind: a behaviour takes one of these
\* workloads.  create: playlist requests for the media playlist; add: API adds;
\* master: playlist requests for the master playlist; list, stop, del: the
\* administrative calls; file: segment and key requests.
Workloads ==
    { [create |-> 2, add |-> 1, master |-> 1, list |-> 0, stop |-> 0, del |-> 0, file |-> 0],
      [create |-> 1, add |-> 1, master |-> 0, list |-> 1, stop |-> 1, del |-> 1, file |-> 0],
      [create |-> 2, add |-> 0, master |-> 0, list |-> 0, stop |-> 1, del |-> 1, file |-> 1],
      [create |-> 2, add |-> 0, master |-> 0, list |-> 0, stop |-> 1, del |-> 2, file |-> 0] }

\* ---------------------------------------------------------------- inputs
MasterURL == "http://h/master.m3u8"
VariantURL == "http://h/hi/index.m3u8"
LowURL == "http://h/lo/index.m3u8"
URLs == {MasterURL, VariantURL, LowURL}
PlayerURLs == {MasterURL, VariantURL}

\* Variants of the master playlist served at MasterURL (absolute URIs).
MasterVariants ==
    << [uri |-> LowURL, bandwidth |-> 1], [uri |-> VariantURL, bandwidth |-> 2] >>

\* Media playlists the upstream may serve at VariantURL: one segment with a
\* key, and a key-only entry (a segment without URI).
PlSegKey == << [uri |-> "s1.ts", key |-> "k1"] >>
PlKeyOnly == << [uri |-> "", key |-> "k1"] >>
Playlists == {PlSegKey, PlKeyOnly}

HostBase == "http://player-host/proxy"

\* ---------------------------------------------------------------- cache
GetTaskID(url) == << "md5", url >>
TaskIDs == {GetTaskID(u) : u \in URLs}
AdminIDs == {GetTaskID(VariantURL)}

Sidecar(filename) == Append(filename, ".aria2")
FileExists(fs, taskID, filename) == << taskID, filename >> \in fs
EnsureTaskDir(ds, taskID) == ds \cup {taskID}

\* ---------------------------------------------------------------- config
ProxyPort == 8084
LocalBase == << "http://localhost", ProxyPort, "/proxy" >>

\* ---------------------------------------------------------------- rewriter
resolveURL(base, ref) == IF ref \in URLs THEN ref ELSE << base, ref >>

Ext(ref) == IF ref = "s1.ts" THEN ".ts" ELSE IF ref = "s2.mp4" THEN ".mp4" ELSE ""

Digit(n, k) == (n \div k) % 10
Pad5(n) == << Digit(n, 10000), Digit(n, 1000), Digit(n, 100), Digit(n, 10), Digit(n, 1) >>

SegFilename(i, ref) == << Pad5(i), IF Ext(ref) # "" THEN Ext(ref) ELSE ".ts" >>
KeyFilename(fullKeyURL) == << << "md5", fullKeyURL >>, ".key" >>

QueryEscape(u) == << "esc", u >>

SegItem(base, i, seg) ==
    [url |-> resolveURL(base, seg.uri), filename |-> SegFilename(i, seg.uri), type |-> "ts"]
KeyItem(base, seg) ==
    [url |-> resolveURL(base, seg.key),
     filename |-> KeyFilename(resolveURL(base, seg.key)), type |-> "key"]

RECURSIVE RewriteItemsNoDedup(_, _, _, _)
\* The download plan without the seenKeys test: a key item per keyed entry.
RewriteItemsNoDedup(p, base, i, seen) ==
    IF i > Len(p) THEN << >>
    ELSE LET seg == p[i]
             segPart == IF seg.uri # "" THEN << SegItem(base, i, seg) >> ELSE << >>
             keyPart == IF seg.key # "" THEN << KeyItem(base, seg) >> ELSE << >>
         IN segPart \o keyPart \o RewriteItemsNoDedup(p, base, i + 1, seen)

RECURSIVE RewriteItems(_, _, _, _)
\* The download plan of segments i..Len(p), given the key filenames seen so far.
RewriteItems(p, base, i, seen) ==
    IF i > Len(p) THEN << >>
    ELSE LET seg == p[i]
             segPart == IF seg.uri # "" THEN << SegItem(base, i, seg) >> ELSE << >>
             hasKey == seg.key # ""
             kf == KeyFilename(resolveURL(base, seg.key))
             keyPart == IF hasKey /\ kf \notin seen THEN << KeyItem(base, seg) >> ELSE << >>
             seen2 == IF hasKey THEN seen \cup {kf} ELSE seen
         IN segPart \o keyPart \o RewriteItems(p, base, i + 1, seen2)

RewriteEntry(proxyBase, taskID, base, i, seg) ==
    [uri |-> IF seg.uri = "" THEN ""
             ELSE << proxyBase, "seg", taskID, SegFilename(i, seg.uri),
                     QueryEscape(resolveURL(base, seg.uri)) >>,
     key |-> IF seg.key = "" THEN ""
             ELSE << proxyBase, "key", taskID, KeyFilename(resolveURL(base, seg.key)),
                     QueryEscape(resolveURL(base, seg.key)) >>]

RewriteVariant(p, proxyBase, taskID, base) ==
    [text |-> [i \in 1..Len(p) |-> RewriteEntry(proxyBase, taskID, base, i, p[i])],
     items |-> RewriteItems(p, base, 1, {}),
     total |-> Cardinality({i \in 1..Len(p) : p[i].uri # ""})]

RewriteMaster(vs, proxyBase, base) ==
    [i \in 1..Len(vs) |->
        [vs[i] EXCEPT !.uri = << proxyBase, "m3u8", QueryEscape(resolveURL(base, vs[i].uri)) >>]]

\* The variant with the highest bandwidth, the first one on ties.
BestVariant(vs) ==
    LET best == CHOOSE i \in 1..Len(vs) :
                    /\ \A j \in 1..Len(vs) : vs[j].bandwidth <= vs[i].bandwidth
                    /\ \A j \in 1..(i - 1) : vs[j].bandwidth < vs[i].bandwidth
    IN vs[best]

\* ---------------------------------------------------------------- task store
TaskMetadata(id, url, total, now, content) ==
    [id |-> id, originalURL |-> url, totalSegments |-> total, createdTime |-> now,
     status |-> "downloading", proxiedContent |-> content]

HasTask(tbl, id) == \E i \in 1..Len(tbl) : tbl[i].id = id
TaskRow(tbl, id) == tbl[CHOOSE i \in 1..Len(tbl) : tbl[i].id = id]

\* INSERT INTO tasks: the primary key on id rejects a second row.
\* A tasks table without the primary key: every INSERT adds a row.
CreateTaskNoKey(tbl, meta) == [err |-> FALSE, tbl |-> Append(tbl, meta)]

\* INSERT OR REPLACE in place of INSERT: the primary key no longer rejects.
CreateTaskReplacing(tbl, meta) ==
    [err |-> FALSE,
     tbl |-> Append(SelectSeq(tbl, LAMBDA r : r.id # meta.id), meta)]

CreateTask(tbl, meta) ==
    IF HasTask(tbl, meta.id) THEN [err |-> TRUE, tbl |-> tbl]
    ELSE [err |-> FALSE, tbl |-> Append(tbl, meta)]

CheckTaskExists(tbl, id) ==
    IF HasTask(tbl, id) THEN [exists |-> TRUE, status |-> TaskRow(tbl, id).status]
    ELSE [exists |-> FALSE, status |-> ""]

\* A lookup that never finds a stored body.
GetTaskProxiedContentMissing(tbl, id) == [err |-> TRUE, content |-> << >>]

GetTaskProxiedContent(tbl, id) ==
    IF HasTask(tbl, id) THEN [err |-> FALSE, content |-> TaskRow(tbl, id).proxiedContent]
    ELSE [err |-> TRUE, content |-> << >>]

UpdateTaskStatus(tbl, id, status) ==
    [i \in 1..Len(tbl) |-> IF tbl[i].id = id THEN [tbl[i] EXCEPT !.status = status] ELSE tbl[i]]

DeleteTaskDB(tbl, id) == SelectSeq(tbl, LAMBDA r : r.id # id)

RECURSIVE InsertDesc(_, _)
InsertDesc(sorted, r) ==
    IF sorted = << >> THEN << r >>
    ELSE IF r.createdTime > Head(sorted).createdTime THEN << r >> \o sorted
    ELSE << Head(sorted) >> \o InsertDesc(Tail(sorted), r)

RECURSIVE ListTasksDB(_)
\* SELECT ... ORDER BY created_time DESC, without proxied_content.
ListTasksDB(tbl) ==
    IF tbl = << >> THEN << >>
    ELSE InsertDesc(ListTasksDB(Tail(tbl)),
                    [id |-> Head(tbl).id, originalURL |-> Head(tbl).originalURL,
                     totalSegments |-> Head(tbl).totalSegments,
                     createdTime |-> Head(tbl).createdTime, status |-> Head(tbl).status])

HasItem(tbl, taskID, filename) ==
    \E i \in 1..Len(tbl) : tbl[i].taskID = taskID /\ tbl[i].filename = filename

\* INSERT OR IGNORE INTO task_item: a row for the pair already there wins.
\* INSERT OR REPLACE in place of INSERT OR IGNORE: the later gid wins.
CreateTaskItemReplacing(tbl, taskID, filename, gid, url) ==
    [err |-> FALSE,
     tbl |-> Append(SelectSeq(tbl, LAMBDA r : ~(r.taskID = taskID /\ r.filename = filename)),
                    [taskID |-> taskID, filename |-> filename, gid |-> gid, url |-> url])]

CreateTaskItem(tbl, taskID, filename, gid, url) ==
    IF HasItem(tbl, taskID, filename) THEN [err |-> FALSE, tbl |-> tbl]
    ELSE [err |-> FALSE,
          tbl |-> Append(tbl, [taskID |-> taskID, filename |-> filename, gid |-> gid, url |-> url])]

GetTaskItems(tbl, taskID) == SelectSeq(tbl, LAMBDA r : r.taskID = taskID)
GetTaskItemGIDs(tbl, taskID) ==
    LET rows == GetTaskItems(tbl, taskID) IN [i \in 1..Len(rows) |-> rows[i].gid]
DeleteTaskItems(tbl, taskID) == SelectSeq(tbl, LAMBDA r : r.taskID # taskID)

\* ---------------------------------------------------------------- progress
\* countDownloadedSegments: the task_item rows whose file exists without sidecar.
countDownloadedSegments(itemTbl, fs, taskID) ==
    LET its == GetTaskItems(itemTbl, taskID)
    IN Cardinality({i \in 1..Len(its) :
                       /\ FileExists(fs, taskID, its[i].filename)
                       /\ ~FileExists(fs, taskID, Sidecar(its[i].filename))})

\* The loop body with "downloaded > total" as the test for completion.
TaskReportStrict(meta, itemTbl, fs) ==
    IF meta.status = "completed"
    THEN [id |-> meta.id, total |-> meta.totalSegments, downloaded |-> meta.totalSegments,
          status |-> "completed", flip |-> FALSE]
    ELSE LET downloaded == countDownloadedSegments(itemTbl, fs, meta.id)
         IN IF meta.totalSegments > 0 /\ downloaded > meta.totalSegments
            THEN [id |-> meta.id, total |-> meta.totalSegments,
                  downloaded |-> meta.totalSegments, status |-> "completed", flip |-> TRUE]
            ELSE [id |-> meta.id, total |-> meta.totalSegments, downloaded |-> downloaded,
                  status |-> meta.status, flip |-> FALSE]

\* The body of the loop of GetTasks for one listed row.
TaskReport(meta, itemTbl, fs) ==
    IF meta.status = "completed"
    THEN [id |-> meta.id, total |-> meta.totalSegments, downloaded |-> meta.totalSegments,
          status |-> "completed", flip |-> FALSE]
    ELSE LET downloaded == countDownloadedSegments(itemTbl, fs, meta.id)
         IN IF meta.totalSegments > 0 /\ downloaded >= meta.totalSegments
            THEN [id |-> meta.id, total |-> meta.totalSegments,
                  downloaded |-> meta.totalSegments, status |-> "completed", flip |-> TRUE]
            ELSE [id |-> meta.id, total |-> meta.totalSegments, downloaded |-> downloaded,
                  status |-> meta.status, flip |-> FALSE]

\* ---------------------------------------------------------------- engine RPC
\* aria2.forceRemove stops a queued or running job; its files stay on disk.
ForceRemove(js, gid) ==
    IF gid \in DOMAIN js
    THEN [js EXCEPT ![gid].creq = TRUE,
                    ![gid].st = IF @ \in {"waiting", "active"} THEN "removed" ELSE @]
    ELSE js

\* aria2.removeDownloadResult drops a finished job from the engine's memory.
RemoveDownloadResult(js, gid) ==
    IF gid \in DOMAIN js /\ js[gid].st \in {"complete", "removed", "error"}
    THEN [js EXCEPT ![gid].st = "forgotten"]
    ELSE js

\* os.RemoveAll of the task directory; a job writing there loses its files.
RemoveAll(fs, id) == {f \in fs : f[1] # id}
JobsAfterRemoveAll(js, id) ==
    [g \in DOMAIN js |->
        IF js[g].dir = id /\ js[g].st = "active" THEN [js[g] EXCEPT !.st = "error"] ELSE js[g]]

\* ---------------------------------------------------------------- state
VARIABLES
    tasks,      \* table tasks, in insertion order
    taskItems,  \* table task_item, in insertion order
    dirs,       \* task directories that exist under the cache directory
    files,      \* <<taskID, filename>> of the files that exist
    jobs,       \* the engine's jobs: gid -> [dir, out, st, rec, creq, life]
    nextGid,    \* the next gid the engine hands out
    pending,    \* detached UpdateTaskStatus(id, "completed") calls not yet run
    pc,         \* where each goroutine stands
    loc,        \* each goroutine's local variables
    last,       \* what the last step answered or logged, if anything
    clock,      \* time.Now(), counted in CreateTask calls
    upstream,   \* the media playlist the origin serves at VariantURL
    budget      \* requests still to come, by kind

vars == << tasks, taskItems, dirs, files, jobs, nextGid, pending, pc, loc, last, clock,
           upstream, budget >>

db == << tasks, taskItems >>
fsys == << dirs, files >>
engine == << jobs, nextGid >>

Loc0 == [url |-> "", id |-> << >>, pbase |-> "", idx |-> 0, gid |-> 0, gids |-> << >>,
         status |-> "", snap |-> << >>, rep |-> << >>, file |-> << >>]
Last0 == [proc |-> "", op |-> "", code |-> 0, body |-> << >>, err |-> ""]

Init ==
    /\ tasks = << >>
    /\ taskItems = << >>
    /\ dirs = {}
    /\ files = {}
    /\ jobs = << >>
    /\ nextGid = 1
    /\ pending = [id \in TaskIDs |-> 0]
    /\ pc = [p \in Procs |-> "idle"]
    /\ loc = [p \in Procs |-> Loc0]
    /\ last = Last0
    /\ clock = 0
    /\ upstream \in Playlists
    /\ budget \in Workloads

TheID == GetTaskID(VariantURL)
\* The created_time of the row of the id, which tells one row of an id from
\* the next; -1 when the id has no row.
RowBirth(tbl, id) == IF HasTask(tbl, id) THEN TaskRow(tbl, id).createdTime ELSE -1
TaskStatus(tbl, id) == IF HasTask(tbl, id) THEN TaskRow(tbl, id).status ELSE "none"
Dispatching(p) == pc[p] \in {"trig", "trig_item"}

\* A request of the given kind arrives and the first free goroutine takes it.
Start(p, kind) ==
    /\ pc[p] = "idle"
    /\ p = "w1" \/ pc["w1"] # "idle"
    /\ budget[kind] > 0
    /\ budget' = [budget EXCEPT ![kind] = @ - 1]

Goto(p, l) == pc' = [pc EXCEPT ![p] = l]
SetLoc(p, l) == loc' = [loc EXCEPT ![p] = l]
Finish(p) == Goto(p, "idle") /\ SetLoc(p, Loc0)
Reply(p, op, code, body) ==
    last' = [proc |-> p, op |-> op, code |-> code, body |-> body, err |-> ""]
ReplyErr(p, op, code, err) ==
    last' = [proc |-> p, op |-> op, code |-> code, body |-> << >>, err |-> err]
Logged(p, outcome) ==
    last' = [proc |-> p, op |-> "go", code |-> 0, body |-> << >>, err |-> outcome]
Quiet == last' = Last0
Plan(p) == RewriteVariant(upstream, loc[p].pbase, loc[p].id, loc[p].url)
Kind(u) == IF u = MasterURL THEN "master" ELSE "create"

\* ---------------------------------------------------------------- player path
\* handleM3U8 up to the stored-content check: a stored body is served at once.
HandleM3U8(p, u) ==
    /\ Start(p, Kind(u))
    /\ LET got == GetTaskProxiedContent(tasks, GetTaskID(u))
       IN IF ~got.err /\ got.content # << >>
          THEN Reply(p, "m3u8", 200, got.content) /\ UNCHANGED << pc, loc >>
          ELSE /\ Quiet
               /\ Goto(p, "m3u8_fetch")
               /\ SetLoc(p, [Loc0 EXCEPT !.url = u, !.id = GetTaskID(u), !.pbase = HostBase])
    /\ UNCHANGED << db, fsys, engine, pending, clock, upstream >>

\* A failed fetch that answers 502 and still goes on to create the task.
M3U8UpstreamFailGoesOn(p) ==
    /\ pc[p] = "m3u8_fetch"
    /\ ReplyErr(p, "m3u8", 502, "bad gateway")
    /\ Goto(p, "go_create")
    /\ UNCHANGED << db, fsys, engine, pending, loc, clock, upstream, budget >>

\* fetchUpstreamM3U8 or Parse fails: 502.
M3U8UpstreamFail(p) ==
    /\ pc[p] = "m3u8_fetch"
    /\ ReplyErr(p, "m3u8", 502, "bad gateway")
    /\ Finish(p)
    /\ UNCHANGED << db, fsys, engine, pending, clock, upstream, budget >>

\* handleMasterPlaylist making a task directory for the master URL.
HandleMasterPlaylistMakesDir(p) ==
    /\ pc[p] = "m3u8_fetch"
    /\ loc[p].url = MasterURL
    /\ dirs' = EnsureTaskDir(dirs, loc[p].id)
    /\ Reply(p, "m3u8", 200, RewriteMaster(MasterVariants, loc[p].pbase, loc[p].url))
    /\ Finish(p)
    /\ UNCHANGED << db, files, engine, pending, clock, upstream, budget >>

\* The upstream serves a master playlist: handleMasterPlaylist.
HandleMasterPlaylist(p) ==
    /\ pc[p] = "m3u8_fetch"
    /\ loc[p].url = MasterURL
    /\ Reply(p, "m3u8", 200, RewriteMaster(MasterVariants, loc[p].pbase, loc[p].url))
    /\ Finish(p)
    /\ UNCHANGED << db, fsys, engine, pending, clock, upstream, budget >>

\* The upstream serves a media playlist: handleVariantPlaylist, which makes the
\* directory, rewrites, asks CheckTaskExists, detaches the creation and answers.
HandleVariantPlaylist(p) ==
    /\ pc[p] = "m3u8_fetch"
    /\ loc[p].url # MasterURL
    /\ dirs' = EnsureTaskDir(dirs, loc[p].id)
    /\ LET chk == CheckTaskExists(tasks, loc[p].id)
           shouldStartNewTask ==
               ~chk.exists \/ (chk.status # "downloading" /\ chk.status # "completed")
       IN /\ Reply(p, "m3u8", 200, Plan(p).text)
          /\ IF shouldStartNewTask
             THEN Goto(p, "go_create") /\ SetLoc(p, [loc[p] EXCEPT !.status = chk.status])
             ELSE Finish(p)
    /\ UNCHANGED << db, files, engine, pending, clock, upstream, budget >>

\* The loop of triggerDownloads moves to the next item or ends.
TriggerNext(p) ==
    IF loc[p].idx >= Len(Plan(p).items)
    THEN Finish(p)
    ELSE Goto(p, "trig") /\ SetLoc(p, [loc[p] EXCEPT !.idx = @ + 1, !.gid = 0])

\* A creator that answers a failed CreateTask by deleting the row in its way.
CreateAndDispatchCleansUp(p, failure) ==
    LET plan == Plan(p)
        res == CreateTask(tasks, TaskMetadata(loc[p].id, loc[p].url, plan.total, clock, plan.text))
    IN /\ tasks' = IF res.err THEN DeleteTaskDB(tasks, loc[p].id) ELSE res.tbl
       /\ clock' = clock + 1
       /\ IF res.err
          THEN Logged(p, failure) /\ Finish(p)
          ELSE /\ Logged(p, "created")
               /\ IF plan.items = << >> THEN Finish(p)
                  ELSE Goto(p, "trig") /\ SetLoc(p, [loc[p] EXCEPT !.idx = 1])

\* CreateTask by a creator, and what follows: return on error, dispatch on success.
CreateAndDispatch(p, failure) ==
    LET plan == Plan(p)
        res == CreateTask(tasks, TaskMetadata(loc[p].id, loc[p].url, plan.total, clock, plan.text))
    IN /\ tasks' = res.tbl
       /\ clock' = clock + 1
       /\ IF res.err
          THEN Logged(p, failure) /\ Finish(p)
          ELSE /\ Logged(p, "created")
               /\ IF plan.items = << >> THEN Finish(p)
                  ELSE Goto(p, "trig") /\ SetLoc(p, [loc[p] EXCEPT !.idx = 1])

\* The detached goroutine of handleVariantPlaylist.
GoCreateTask(p) ==
    /\ pc[p] = "go_create"
    /\ CreateAndDispatch(p, "failed to create task")
    /\ UNCHANGED << taskItems, fsys, engine, pending, upstream, budget >>

\* ---------------------------------------------------------------- dispatch
\* triggerDownloads: the file of the next item exists, the item is skipped.
TriggerSkip(p) ==
    /\ pc[p] = "trig"
    /\ FileExists(files, loc[p].id, Plan(p).items[loc[p].idx].filename)
    /\ TriggerNext(p)
    /\ Quiet
    /\ UNCHANGED << db, fsys, engine, pending, clock, upstream, budget >>

\* triggerDownloads: aria2.AddUri is accepted, the engine queues a job.
TriggerAddUri(p) ==
    /\ pc[p] = "trig"
    /\ ~FileExists(files, loc[p].id, Plan(p).items[loc[p].idx].filename)
    /\ nextGid <= MaxGid
    /\ jobs' = jobs @@ (nextGid :> [dir |-> loc[p].id,
                                    out |-> Plan(p).items[loc[p].idx].filename,
                                    st |-> "waiting", rec |-> FALSE, creq |-> FALSE,
                                    life |-> RowBirth(tasks, loc[p].id)])
    /\ nextGid' = nextGid + 1
    /\ SetLoc(p, [loc[p] EXCEPT !.gid = nextGid])
    /\ Goto(p, "trig_item")
    /\ Quiet
    /\ UNCHANGED << db, fsys, pending, clock, upstream, budget >>

\* A failed AddUri after which an item row is inserted with an empty gid.
TriggerAddUriFailRecords(p) ==
    /\ pc[p] = "trig"
    /\ ~FileExists(files, loc[p].id, Plan(p).items[loc[p].idx].filename)
    /\ LET it == Plan(p).items[loc[p].idx]
       IN taskItems' = CreateTaskItem(taskItems, loc[p].id, it.filename, 0, it.url).tbl
    /\ TriggerNext(p)
    /\ Quiet
    /\ UNCHANGED << tasks, fsys, engine, pending, clock, upstream, budget >>

\* A failed AddUri that returns from triggerDownloads.
TriggerAddUriFailAborts(p) ==
    /\ pc[p] = "trig"
    /\ ~FileExists(files, loc[p].id, Plan(p).items[loc[p].idx].filename)
    /\ Finish(p)
    /\ Quiet
    /\ UNCHANGED << db, fsys, engine, pending, clock, upstream, budget >>

\* triggerDownloads: aria2.AddUri fails, the item is skipped.
TriggerAddUriFail(p) ==
    /\ pc[p] = "trig"
    /\ ~FileExists(files, loc[p].id, Plan(p).items[loc[p].idx].filename)
    /\ TriggerNext(p)
    /\ Quiet
    /\ UNCHANGED << db, fsys, engine, pending, clock, upstream, budget >>

\* triggerDownloads: CreateTaskItem with the returned gid; its error is dropped.
TriggerCreateItem(p) ==
    /\ pc[p] = "trig_item"
    /\ LET it == Plan(p).items[loc[p].idx]
           res == CreateTaskItem(taskItems, loc[p].id, it.filename, loc[p].gid, it.url)
       IN /\ taskItems' = res.tbl
          /\ jobs' = [jobs EXCEPT ![loc[p].gid].rec =
                         \E i \in 1..Len(res.tbl) : res.tbl[i].gid = loc[p].gid]
          /\ Quiet
    /\ TriggerNext(p)
    /\ UNCHANGED << tasks, fsys, nextGid, pending, clock, upstream, budget >>

\* ---------------------------------------------------------------- API add
\* HandleAdd refusing only a row that is downloading or completed.
HandleAddUnlessStopped(p, u) ==
    /\ Start(p, "add")
    /\ LET chk == CheckTaskExists(tasks, GetTaskID(u))
       IN IF chk.exists /\ chk.status # "stopped"
          THEN /\ last' = [proc |-> p, op |-> "add", code |-> 409, body |-> << u >>,
                         err |-> chk.status]
               /\ UNCHANGED << pc, loc >>
          ELSE /\ Reply(p, "add", 200, << >>)
               /\ Goto(p, "sd_check")
               /\ SetLoc(p, [Loc0 EXCEPT !.url = u, !.id = GetTaskID(u), !.pbase = LocalBase])
    /\ UNCHANGED << db, fsys, engine, pending, clock, upstream >>

\* HandleAdd: a row for the fingerprint is a conflict; otherwise the trigger
\* function is started on its own goroutine and 200 is answered.
HandleAdd(p, u) ==
    /\ Start(p, "add")
    /\ LET chk == CheckTaskExists(tasks, GetTaskID(u))
       IN IF chk.exists
          THEN /\ last' = [proc |-> p, op |-> "add", code |-> 409, body |-> << u >>,
                         err |-> chk.status]
               /\ UNCHANGED << pc, loc >>
          ELSE /\ Reply(p, "add", 200, << >>)
               /\ Goto(p, "sd_check")
               /\ SetLoc(p, [Loc0 EXCEPT !.url = u, !.id = GetTaskID(u), !.pbase = LocalBase])
    /\ UNCHANGED << db, fsys, engine, pending, clock, upstream >>

\* startDownloadFromURL: the existence check before any upstream fetch.
StartDownloadCheck(p) ==
    /\ pc[p] = "sd_check"
    /\ LET chk == CheckTaskExists(tasks, loc[p].id)
       IN IF chk.exists /\ (chk.status = "downloading" \/ chk.status = "completed")
          THEN Logged(p, "task already exists") /\ Finish(p)
          ELSE Quiet /\ Goto(p, "sd_fetch") /\ UNCHANGED loc
    /\ UNCHANGED << db, fsys, engine, pending, clock, upstream, budget >>

\* The upstream fetch or the parse fails: the error is returned and printed.
StartDownloadFetchFail(p) ==
    /\ pc[p] = "sd_fetch"
    /\ Logged(p, "fetch failed")
    /\ Finish(p)
    /\ UNCHANGED << db, fsys, engine, pending, clock, upstream, budget >>

\* A master playlist: recurse into the variant with the highest bandwidth.
StartDownloadMaster(p) ==
    /\ pc[p] = "sd_fetch"
    /\ loc[p].url = MasterURL
    /\ LET fullURL == resolveURL(loc[p].url, BestVariant(MasterVariants).uri)
       IN SetLoc(p, [loc[p] EXCEPT !.url = fullURL, !.id = GetTaskID(fullURL)])
    /\ Goto(p, "sd_check")
    /\ Quiet
    /\ UNCHANGED << db, fsys, engine, pending, clock, upstream, budget >>

\* A media playlist: EnsureTaskDir, the rewrite, CreateTask and the dispatch.
StartDownloadVariant(p) ==
    /\ pc[p] = "sd_fetch"
    /\ loc[p].url # MasterURL
    /\ dirs' = EnsureTaskDir(dirs, loc[p].id)
    /\ CreateAndDispatch(p, "error starting task")
    /\ UNCHANGED << taskItems, files, engine, pending, upstream, budget >>

\* ---------------------------------------------------------------- listing
\* GetTasks: ListTasksDB.
GetTasksList(p) ==
    /\ Start(p, "list")
    /\ LET snap == ListTasksDB(tasks)
       IN IF snap = << >>
          THEN Reply(p, "list", 200, << >>) /\ UNCHANGED << pc, loc >>
          ELSE /\ Quiet
               /\ Goto(p, "gt_count")
               /\ SetLoc(p, [Loc0 EXCEPT !.snap = snap, !.idx = 1])
    /\ UNCHANGED << db, fsys, engine, pending, clock, upstream >>

\* GetTasks: one round of the loop; a flip starts the detached status update.
GetTasksCount(p) ==
    /\ pc[p] = "gt_count"
    /\ LET meta == loc[p].snap[loc[p].idx]
           r == TaskReport(meta, taskItems, files)
           rep == Append(loc[p].rep, r)
       IN /\ pending' = [pending EXCEPT ![meta.id] = @ + (IF r.flip THEN 1 ELSE 0)]
          /\ IF loc[p].idx = Len(loc[p].snap)
             THEN Reply(p, "list", 200, rep) /\ Finish(p)
             ELSE /\ SetLoc(p, [loc[p] EXCEPT !.idx = @ + 1, !.rep = rep])
                  /\ Quiet
                  /\ UNCHANGED pc
    /\ UNCHANGED << db, fsys, engine, clock, upstream, budget >>

\* A detached call that runs and writes nothing.
DetachedUpdateWritesNothing(id) ==
    /\ pending[id] > 0
    /\ pending' = [pending EXCEPT ![id] = @ - 1]
    /\ Quiet
    /\ UNCHANGED << db, fsys, engine, pc, loc, clock, upstream, budget >>

\* go m.UpdateTaskStatus(meta.ID, "completed")
DetachedUpdateStatus(id) ==
    /\ pending[id] > 0
    /\ pending' = [pending EXCEPT ![id] = @ - 1]
    /\ tasks' = UpdateTaskStatus(tasks, id, "completed")
    /\ Quiet
    /\ UNCHANGED << taskItems, fsys, engine, pc, loc, clock, upstream, budget >>

\* The detached update fails in the database: its error is dropped.
DetachedUpdateFails(id) ==
    /\ pending[id] > 0
    /\ pending' = [pending EXCEPT ![id] = @ - 1]
    /\ Quiet
    /\ UNCHANGED << db, fsys, engine, pc, loc, clock, upstream, budget >>

\* ---------------------------------------------------------------- stop
\* StopTask: UpdateTaskStatus(id, "stopped").
StopTask(p, id) ==
    /\ Start(p, "stop")
    /\ tasks' = UpdateTaskStatus(tasks, id, "stopped")
    /\ Quiet
    /\ Goto(p, "st_gids")
    /\ SetLoc(p, [Loc0 EXCEPT !.id = id])
    /\ UNCHANGED << taskItems, fsys, engine, pending, clock, upstream >>

\* StopTask: the status update fails and the error is returned.
StopTaskUpdateFails(p, id) ==
    /\ Start(p, "stop")
    /\ ReplyErr(p, "stop", 500, "update failed")
    /\ UNCHANGED << db, fsys, engine, pending, pc, loc, clock, upstream >>

\* StopTask: GetTaskItemGIDs.
StopGetGIDs(p) ==
    /\ pc[p] = "st_gids"
    /\ LET gids == GetTaskItemGIDs(taskItems, loc[p].id)
       IN IF gids = << >>
          THEN Reply(p, "stop", 200, << >>) /\ Finish(p)
          ELSE /\ SetLoc(p, [loc[p] EXCEPT !.gids = gids, !.idx = 1])
               /\ Goto(p, "st_cancel")
               /\ Quiet
    /\ UNCHANGED << db, fsys, engine, pending, clock, upstream, budget >>

StopNext(p) ==
    IF loc[p].idx = Len(loc[p].gids)
    THEN Reply(p, "stop", 200, loc[p].gids) /\ Finish(p)
    ELSE SetLoc(p, [loc[p] EXCEPT !.idx = @ + 1]) /\ Quiet /\ UNCHANGED pc

\* StopTask: ForceRemove of the next gid.
StopForceRemove(p) ==
    /\ pc[p] = "st_cancel"
    /\ jobs' = ForceRemove(jobs, loc[p].gids[loc[p].idx])
    /\ StopNext(p)
    /\ UNCHANGED << db, fsys, nextGid, pending, clock, upstream, budget >>

\* A failed ForceRemove that makes StopTask return the error.
StopForceRemoveFailsReturns(p) ==
    /\ pc[p] = "st_cancel"
    /\ ReplyErr(p, "stop", 500, "cancel failed")
    /\ Finish(p)
    /\ UNCHANGED << db, fsys, engine, pending, clock, upstream, budget >>

\* StopTask: the RPC does not reach the engine; the error is ignored.
StopForceRemoveFails(p) ==
    /\ pc[p] = "st_cancel"
    /\ StopNext(p)
    /\ UNCHANGED << db, fsys, engine, pending, clock, upstream, budget >>

\* ---------------------------------------------------------------- delete
\* DeleteTask without the refusal of a running task.
DeleteTaskAnyStatus(p, id) ==
    /\ Start(p, "del")
    /\ IF ~HasTask(tasks, id)
       THEN ReplyErr(p, "delete", 500, "no rows") /\ UNCHANGED << pc, loc >>
       ELSE /\ Quiet
            /\ Goto(p, "dl_gids")
            /\ SetLoc(p, [Loc0 EXCEPT !.id = id, !.status = TaskRow(tasks, id).status])
    /\ UNCHANGED << db, fsys, engine, pending, clock, upstream >>

\* DeleteTask: GetTask and the refusal of a running task.
DeleteTask(p, id) ==
    /\ Start(p, "del")
    /\ IF ~HasTask(tasks, id)
       THEN ReplyErr(p, "delete", 500, "no rows") /\ UNCHANGED << pc, loc >>
       ELSE IF TaskRow(tasks, id).status = "downloading"
            THEN ReplyErr(p, "delete", 500, "cannot delete running task")
                 /\ UNCHANGED << pc, loc >>
            ELSE /\ Quiet
                 /\ Goto(p, "dl_gids")
                 /\ SetLoc(p, [Loc0 EXCEPT !.id = id, !.status = TaskRow(tasks, id).status])
    /\ UNCHANGED << db, fsys, engine, pending, clock, upstream >>

\* DeleteTask: GetTaskItemGIDs.
DeleteGetGIDs(p) ==
    /\ pc[p] = "dl_gids"
    /\ LET gids == GetTaskItemGIDs(taskItems, loc[p].id)
       IN /\ SetLoc(p, [loc[p] EXCEPT !.gids = gids, !.idx = 1])
          /\ Goto(p, IF gids = << >> THEN "dl_rm" ELSE "dl_cancel")
    /\ Quiet
    /\ UNCHANGED << db, fsys, engine, pending, clock, upstream, budget >>

DeleteNext(p) ==
    IF loc[p].idx = Len(loc[p].gids)
    THEN Goto(p, "dl_rm") /\ UNCHANGED loc
    ELSE SetLoc(p, [loc[p] EXCEPT !.idx = @ + 1]) /\ UNCHANGED pc

\* DeleteTask: ForceRemove and RemoveDownloadResult of the next gid.
DeleteForceRemove(p) ==
    /\ pc[p] = "dl_cancel"
    /\ jobs' = RemoveDownloadResult(ForceRemove(jobs, loc[p].gids[loc[p].idx]),
                                    loc[p].gids[loc[p].idx])
    /\ DeleteNext(p)
    /\ Quiet
    /\ UNCHANGED << db, fsys, nextGid, pending, clock, upstream, budget >>

\* DeleteTask: the RPCs do not reach the engine; the errors are ignored.
DeleteForceRemoveFails(p) ==
    /\ pc[p] = "dl_cancel"
    /\ DeleteNext(p)
    /\ Quiet
    /\ UNCHANGED << db, fsys, engine, pending, clock, upstream, budget >>

\* DeleteTask deleting the rows before the directory.
DeleteRemoveAllAfterRows(p) ==
    /\ pc[p] = "dl_rm"
    /\ taskItems' = DeleteTaskItems(taskItems, loc[p].id)
    /\ tasks' = DeleteTaskDB(tasks, loc[p].id)
    /\ dirs' = dirs \ {loc[p].id}
    /\ files' = RemoveAll(files, loc[p].id)
    /\ jobs' = JobsAfterRemoveAll(jobs, loc[p].id)
    /\ Goto(p, "dl_stat")
    /\ Quiet
    /\ UNCHANGED << nextGid, pending, loc, clock, upstream, budget >>

\* DeleteTask: os.RemoveAll of the task directory.
DeleteRemoveAll(p) ==
    /\ pc[p] = "dl_rm"
    /\ dirs' = dirs \ {loc[p].id}
    /\ files' = RemoveAll(files, loc[p].id)
    /\ jobs' = JobsAfterRemoveAll(jobs, loc[p].id)
    /\ Goto(p, "dl_stat")
    /\ Quiet
    /\ UNCHANGED << db, nextGid, pending, loc, clock, upstream, budget >>

\* os.RemoveAll fails: DeleteTask returns the error.
DeleteRemoveAllFails(p) ==
    /\ pc[p] = "dl_rm"
    /\ ReplyErr(p, "delete", 500, "failed to remove files")
    /\ Finish(p)
    /\ UNCHANGED << db, fsys, engine, pending, clock, upstream, budget >>

\* DeleteTask: os.Stat of the directory after the removal.
DeleteStat(p) ==
    /\ pc[p] = "dl_stat"
    /\ IF loc[p].id \in dirs
       THEN ReplyErr(p, "delete", 500, "directory still exists") /\ Finish(p)
       ELSE Quiet /\ Goto(p, "dl_items") /\ UNCHANGED loc
    /\ UNCHANGED << db, fsys, engine, pending, clock, upstream, budget >>

\* DeleteTask: DeleteTaskItems.
DeleteItems(p) ==
    /\ pc[p] = "dl_items"
    /\ taskItems' = DeleteTaskItems(taskItems, loc[p].id)
    /\ Goto(p, "dl_row")
    /\ Quiet
    /\ UNCHANGED << tasks, fsys, engine, pending, loc, clock, upstream, budget >>

\* DeleteTask: DeleteTaskDB and the successful return.
DeleteRow(p) ==
    /\ pc[p] = "dl_row"
    /\ tasks' = DeleteTaskDB(tasks, loc[p].id)
    /\ Reply(p, "delete", 200, << loc[p].id, loc[p].status, loc[p].gids >>)
    /\ Finish(p)
    /\ UNCHANGED << taskItems, fsys, engine, pending, clock, upstream, budget >>

\* ---------------------------------------------------------------- segments and keys
ProxyFiles == {SegFilename(1, "s1.ts"), KeyFilename(resolveURL(VariantURL, "k1"))}

\* The live pass-through from the original URL: the upstream answer, or 502.
PassThrough(p, up) ==
    IF up THEN Reply(p, "file", 200, << "upstream" >>)
    ELSE ReplyErr(p, "file", 502, "bad gateway")

\* A pass-through that stores what it fetched in the cache directory.
HandleProxyFileStores(p, id, filename, up) ==
    /\ Start(p, "file")
    /\ IF FileExists(files, id, filename)
       THEN /\ Quiet
            /\ SetLoc(p, [Loc0 EXCEPT !.id = id, !.file = filename])
            /\ Goto(p, "pf_sidecar")
            /\ UNCHANGED fsys
       ELSE /\ PassThrough(p, up)
            /\ dirs' = dirs \cup {id}
            /\ files' = files \cup {<< id, filename >>}
            /\ UNCHANGED << pc, loc >>
    /\ UNCHANGED << db, engine, pending, clock, upstream >>

\* handleProxyFile: FileExists of the requested file; pass-through when absent.
HandleProxyFile(p, id, filename, up) ==
    /\ Start(p, "file")
    /\ IF FileExists(files, id, filename)
       THEN /\ Quiet
            /\ SetLoc(p, [Loc0 EXCEPT !.id = id, !.file = filename])
            /\ Goto(p, "pf_sidecar")
       ELSE PassThrough(p, up) /\ UNCHANGED << pc, loc >>
    /\ UNCHANGED << db, fsys, engine, pending, clock, upstream >>

\* handleProxyFile: FileExists of the sidecar; pass-through when present.
ProxyStatSidecar(p, up) ==
    /\ pc[p] = "pf_sidecar"
    /\ IF FileExists(files, loc[p].id, Sidecar(loc[p].file))
       THEN PassThrough(p, up) /\ Finish(p)
       ELSE Quiet /\ Goto(p, "pf_serve") /\ UNCHANGED loc
    /\ UNCHANGED << db, fsys, engine, pending, clock, upstream, budget >>

\* http.ServeFile: what is on disk now is sent, 404 when the file is gone.
ProxyServeFile(p) ==
    /\ pc[p] = "pf_serve"
    /\ IF FileExists(files, loc[p].id, loc[p].file)
       THEN Reply(p, "file", 200, << "disk", loc[p].id, loc[p].file >>)
       ELSE ReplyErr(p, "file", 404, "not found")
    /\ Finish(p)
    /\ UNCHANGED << db, fsys, engine, pending, clock, upstream, budget >>

\* ---------------------------------------------------------------- engine
\* The engine starts a queued job: it creates the directory, the target and
\* the sidecar; it does not overwrite a target that is already there.
EngineStart(g) ==
    /\ g \in DOMAIN jobs
    /\ jobs[g].st = "waiting"
    /\ IF FileExists(files, jobs[g].dir, jobs[g].out)
       THEN /\ jobs' = [jobs EXCEPT ![g].st = "error"]
            /\ UNCHANGED fsys
       ELSE /\ jobs' = [jobs EXCEPT ![g].st = "active"]
            /\ dirs' = dirs \cup {jobs[g].dir}
            /\ files' = files \cup {<< jobs[g].dir, jobs[g].out >>,
                                    << jobs[g].dir, Sidecar(jobs[g].out) >>}
    /\ Quiet
    /\ UNCHANGED << db, nextGid, pending, pc, loc, clock, upstream, budget >>

\* The engine finishes a job: the target is complete and the sidecar removed.
EngineFinish(g) ==
    /\ g \in DOMAIN jobs
    /\ jobs[g].st = "active"
    /\ jobs' = [jobs EXCEPT ![g].st = "complete"]
    /\ files' = files \ {<< jobs[g].dir, Sidecar(jobs[g].out) >>}
    /\ Quiet
    /\ UNCHANGED << db, dirs, nextGid, pending, pc, loc, clock, upstream, budget >>

\* ---------------------------------------------------------------- specification
Next ==
    \/ \E p \in Procs, u \in PlayerURLs : HandleM3U8(p, u)
    \/ \E p \in Procs : M3U8UpstreamFail(p)
    \/ \E p \in Procs : HandleMasterPlaylist(p)
    \/ \E p \in Procs : HandleVariantPlaylist(p)
    \/ \E p \in Procs : GoCreateTask(p)
    \/ \E p \in Procs : TriggerSkip(p)
    \/ \E p \in Procs : TriggerAddUri(p)
    \/ \E p \in Procs : TriggerAddUriFail(p)
    \/ \E p \in Procs : TriggerCreateItem(p)
    \/ \E p \in Procs, u \in PlayerURLs : HandleAdd(p, u)
    \/ \E p \in Procs : StartDownloadCheck(p)
    \/ \E p \in Procs : StartDownloadFetchFail(p)
    \/ \E p \in Procs : StartDownloadMaster(p)
    \/ \E p \in Procs : StartDownloadVariant(p)
    \/ \E p \in Procs : GetTasksList(p)
    \/ \E p \in Procs : GetTasksCount(p)
    \/ \E id \in TaskIDs : DetachedUpdateStatus(id)
    \/ \E id \in TaskIDs : DetachedUpdateFails(id)
    \/ \E p \in Procs, id \in AdminIDs : StopTask(p, id)
    \/ \E p \in Procs, id \in AdminIDs : StopTaskUpdateFails(p, id)
    \/ \E p \in Procs : StopGetGIDs(p)
    \/ \E p \in Procs : StopForceRemove(p)
    \/ \E p \in Procs : StopForceRemoveFails(p)
    \/ \E p \in Procs, id \in AdminIDs : DeleteTask(p, id)
    \/ \E p \in Procs : DeleteGetGIDs(p)
    \/ \E p \in Procs : DeleteForceRemove(p)
    \/ \E p \in Procs : DeleteForceRemoveFails(p)
    \/ \E p \in Procs : DeleteRemoveAll(p)
    \/ \E p \in Procs : DeleteRemoveAllFails(p)
    \/ \E p \in Procs : DeleteStat(p)
    \/ \E p \in Procs : DeleteItems(p)
    \/ \E p \in Procs : DeleteRow(p)
    \/ \E p \in Procs, id \in AdminIDs, f \in ProxyFiles, up \in BOOLEAN :
          HandleProxyFile(p, id, f, up)
    \/ \E p \in Procs, up \in BOOLEAN : ProxyStatSidecar(p, up)
    \/ \E p \in Procs : ProxyServeFile(p)
    \/ \E g \in 1..MaxGid : EngineStart(g)
    \/ \E g \in 1..MaxGid : EngineFinish(g)

Spec == Init /\ [][Next]_vars

\* ---------------------------------------------------------------- the rewriter alone
\* RewriteVariant applied to every media playlist of up to MaxLen entries,
\* each with or without a URI and with or without a key.
RWEntries == [uri : {"", "s1.ts", "s2.mp4"}, key : {"", "k1", "k2"}]
RWPlaylists == UNION {[1..n -> RWEntries] : n \in 1..MaxLen}
NoRequests ==
    [create |-> 0, add |-> 0, master |-> 0, list |-> 0, stop |-> 0, del |-> 0, file |-> 0]

InitRewrite ==
    /\ tasks = << >>
    /\ taskItems = << >>
    /\ dirs = {}
    /\ files = {}
    /\ jobs = << >>
    /\ nextGid = 1
    /\ pending = [id \in TaskIDs |-> 0]
    /\ pc = [p \in Procs |-> "idle"]
    /\ loc = [p \in Procs |-> Loc0]
    /\ last = Last0
    /\ clock = 0
    /\ upstream \in RWPlaylists
    /\ budget = NoRequests

\* updated, items, total := playlist.RewriteVariant(mediaPl, proxyBase, taskID, baseURL)
CallRewriteVariant ==
    /\ last = Last0
    /\ last' = [proc |-> "", op |-> "rewrite", code |-> 0,
                body |-> RewriteVariant(upstream, HostBase, TheID, VariantURL), err |-> ""]
    /\ UNCHANGED << db, fsys, engine, pending, pc, loc, clock, upstream, budget >>

NextRewrite == CallRewriteVariant

SpecRewrite == InitRewrite /\ [][NextRewrite]_vars

\* ---------------------------------------------------------------- the proxy URL, by character
\* A URL is the sequence of its characters.  url.QueryEscape keeps letters,
\* digits and "-_.~", writes a space as "+" and anything else as %XX;
\* Request.URL.Path is the request path with every %XX decoded; and
\* url.QueryUnescape decodes %XX and reads "+" as a space.
HexOf(c) ==
    CASE c = "/" -> << "2", "F" >>
      [] c = "+" -> << "2", "B" >>
      [] c = "%" -> << "2", "5" >>
      [] c = ":" -> << "3", "A" >>
      [] c = " " -> << "2", "0" >>
Escaped == {"/", "+", "%", ":", " "}
HexDigits == {"0", "2", "3", "5", "A", "B", "F"}
\* The character two hex digits stand for; one outside the table is a byte.
Unhex(a, b) ==
    IF \E c \in Escaped : HexOf(c) = << a, b >>
    THEN CHOOSE c \in Escaped : HexOf(c) = << a, b >>
    ELSE << "byte", a, b >>

RECURSIVE QueryEscapeString(_)
QueryEscapeString(u) ==
    IF u = << >> THEN << >>
    ELSE (IF Head(u) = " " THEN << "+" >>
          ELSE IF Head(u) \in Escaped THEN << "%" >> \o HexOf(Head(u))
          ELSE << Head(u) >>) \o QueryEscapeString(Tail(u))

RECURSIVE unescape(_, _)
\* net/url's unescape: mode "path" for Request.URL.Path, "query" for
\* QueryUnescape; an escape that is not % and two hex digits is an error.
unescape(t, mode) ==
    IF t = << >> THEN [err |-> FALSE, out |-> << >>]
    ELSE IF Head(t) = "%"
         THEN IF Len(t) < 3 \/ t[2] \notin HexDigits \/ t[3] \notin HexDigits
              THEN [err |-> TRUE, out |-> << >>]
              ELSE LET rest == unescape(SubSeq(t, 4, Len(t)), mode)
                   IN [err |-> rest.err, out |-> << Unhex(t[2], t[3]) >> \o rest.out]
         ELSE LET rest == unescape(Tail(t), mode)
                  c == IF Head(t) = "+" /\ mode = "query" THEN " " ELSE Head(t)
              IN [err |-> rest.err, out |-> << c >> \o rest.out]
QueryUnescape(t) == unescape(t, "query")
URLPath(t) == unescape(t, "path")

\* strings.SplitN(path, "/", 3)
SplitN3(path) ==
    LET slashes == {i \in 1..Len(path) : path[i] = "/"}
        Min(S) == CHOOSE i \in S : \A j \in S : i <= j
    IN IF slashes = {} THEN << path >>
       ELSE LET i == Min(slashes)
                more == {j \in slashes : j > i}
            IN IF more = {} THEN << SubSeq(path, 1, i - 1), SubSeq(path, i + 1, Len(path)) >>
               ELSE LET j == Min(more)
                    IN << SubSeq(path, 1, i - 1), SubSeq(path, i + 1, j - 1),
                          SubSeq(path, j + 1, Len(path)) >>
TrimPrefix(t, prefix) ==
    IF Len(t) >= Len(prefix) /\ SubSeq(t, 1, Len(prefix)) = prefix
    THEN SubSeq(t, Len(prefix) + 1, Len(t)) ELSE t

\* The inputs: a task id (hex digits), a file name as the rewriter makes it,
\* and the source URLs http://h/ followed by up to MaxURL characters.
SegPrefix == << "/", "p", "r", "o", "x", "y", "/", "s", "e", "g", "/" >>
KeyPrefix == << "/", "p", "r", "o", "x", "y", "/", "k", "e", "y", "/" >>
HexTaskID == << "0", "5", "B" >>
PlainFilename == << "0", "0", "0", "0", "1", ".", "t", "s" >>
URLChars == {"g", "/", "+", "%", "2", "0"}
URLHead == << "h", ":", "/", "/", "h", "/" >>
SourceURLs == {URLHead \o t : t \in UNION {[1..n -> URLChars] : n \in 1..MaxURL}}

\* The path of the URI RewriteVariant writes: prefix/taskID/filename/encodedURL.
RewrittenPath(prefix, taskID, filename, u) ==
    prefix \o taskID \o << "/" >> \o filename \o << "/" >> \o QueryEscapeString(u)

\* handleProxyFile up to originURL: the answer is 400, or the three parts.
ParseProxyPath(requestPath, prefix) ==
    LET urlPath == URLPath(requestPath)
        parts == SplitN3(TrimPrefix(urlPath.out, prefix))
    IN IF urlPath.err \/ Len(parts) < 3 THEN [code |-> 400, parts |-> << >>]
       ELSE LET originURL == QueryUnescape(parts[3])
            IN IF originURL.err THEN [code |-> 400, parts |-> << >>]
               ELSE [code |-> 200, parts |-> << parts[1], parts[2], originURL.out >>]

InitRoundTrip ==
    /\ tasks = << >>
    /\ taskItems = << >>
    /\ dirs = {}
    /\ files = {}
    /\ jobs = << >>
    /\ nextGid = 1
    /\ pending = [id \in TaskIDs |-> 0]
    /\ pc = [p \in Procs |-> "idle"]
    /\ loc = [p \in Procs |-> Loc0]
    /\ last = Last0
    /\ clock = 0
    /\ upstream \in SourceURLs
    /\ budget = NoRequests

\* The player asks for the URI the rewriter wrote for the source URL.
RequestRewritten(prefix) ==
    /\ last = Last0
    /\ LET got == ParseProxyPath(RewrittenPath(prefix, HexTaskID, PlainFilename, upstream),
                                 prefix)
       IN last' = [proc |-> "", op |-> prefix[8], code |-> got.code, body |-> got.parts,
                   err |-> ""]
    /\ UNCHANGED << db, fsys, engine, pending, pc, loc, clock, upstream, budget >>

NextRoundTrip == RequestRewritten(SegPrefix) \/ RequestRewritten(KeyPrefix)

SpecRoundTrip == InitRoundTrip /\ [][NextRoundTrip]_vars

\* ---------------------------------------------------------------- progress to completed
\* A task that is created, downloaded and listed, and never stopped or
\* deleted; the database accepts every statement.  Every goroutine that can
\* take a step eventually takes it, the detached status update included, and
\* the engine works through its queue.
LiveWorkloads ==
    { [create |-> 2, add |-> 0, master |-> 0, list |-> 2, stop |-> 0, del |-> 0, file |-> 0] }

InitLive ==
    /\ tasks = << >>
    /\ taskItems = << >>
    /\ dirs = {}
    /\ files = {}
    /\ jobs = << >>
    /\ nextGid = 1
    /\ pending = [id \in TaskIDs |-> 0]
    /\ pc = [p \in Procs |-> "idle"]
    /\ loc = [p \in Procs |-> Loc0]
    /\ last = Last0
    /\ clock = 0
    /\ upstream \in Playlists
    /\ budget \in LiveWorkloads

NextLive ==
    \/ \E p \in Procs : HandleM3U8(p, VariantURL)
    \/ \E p \in Procs : M3U8UpstreamFail(p)
    \/ \E p \in Procs : HandleVariantPlaylist(p)
    \/ \E p \in Procs : GoCreateTask(p)
    \/ \E p \in Procs : TriggerAddUri(p)
    \/ \E p \in Procs : TriggerAddUriFail(p)
    \/ \E p \in Procs : TriggerCreateItem(p)
    \/ \E p \in Procs : GetTasksList(p)
    \/ \E p \in Procs : GetTasksCount(p)
    \/ \E id \in TaskIDs : DetachedUpdateStatus(id)
    \/ \E g \in 1..MaxGid : EngineStart(g)
    \/ \E g \in 1..MaxGid : EngineFinish(g)

Fairness ==
    /\ \A p \in Procs : WF_vars(GetTasksCount(p))
    /\ \A id \in TaskIDs : WF_vars(DetachedUpdateStatus(id))

SpecLive == InitLive /\ [][NextLive]_vars /\ Fairness

\* ---------------------------------------------------------------- claims
RowsOf(tbl, id) == {i \in 1..Len(tbl) : tbl[i].id = id}
ItemRowsOf(tbl, id, f) == {i \in 1..Len(tbl) : tbl[i].taskID = id /\ tbl[i].filename = f}
CurrentItem(p) == Plan(p).items[loc[p].idx]
Creating(p) == pc[p] \in {"go_create", "sd_fetch"} /\ pc'[p] # pc[p] /\ clock' = clock + 1

\* C1: racing creators (playlist requests and API adds) never leave two rows
\* for one id; a CreateTask succeeds exactly when the id has no row yet, so of
\* two racers one creates; the loser's failure only ends its goroutine (nothing
\* is written, no dispatch starts), the media-playlist request has already
\* been answered 200 with the rewritten body, and no insert of an item row
\* returns an error.
C1_OneRowPerFingerprint ==
    [][ /\ \A id \in TaskIDs : Cardinality(RowsOf(tasks', id)) <= 1
        /\ \A p \in Procs :
              pc[p] = "trig_item" =>
                  ~CreateTaskItem(taskItems, loc[p].id, CurrentItem(p).filename,
                                  loc[p].gid, CurrentItem(p).url).err
        /\ \A p \in Procs :
              /\ Creating(p) =>
                    /\ (last'.err = "created") <=> ~HasTask(tasks, loc[p].id)
                    /\ last'.err # "created" =>
                          /\ tasks' = tasks /\ taskItems' = taskItems /\ jobs' = jobs
                          /\ pc'[p] = "idle"
              /\ (pc[p] = "m3u8_fetch" /\ pc'[p] # pc[p] /\ loc[p].url = VariantURL
                    /\ last'.code # 502) =>
                    /\ last'.code = 200
                    /\ last'.body = RewriteVariant(upstream, HostBase, TheID, VariantURL).text
      ]_vars

\* Two creators raced: one row, one creator dispatching, the other just failed.
C1_Witness ==
    /\ last.op = "go" /\ last.err \in {"failed to create task", "error starting task"}
    /\ clock = 2
    /\ Cardinality(RowsOf(tasks, TheID)) = 1
    /\ TaskStatus(tasks, TheID) = "downloading"
    /\ \E q \in Procs : q # last.proc /\ Dispatching(q)

\* C2: a task_item row is unique per (task id, filename); a second insert for
\* a pair that has a row changes nothing (the stored gid stays) and reports no
\* error, so running the dispatch again over the same items adds no row.
InsertingItem(p) == pc[p] = "trig_item" /\ pc'[p] # "trig_item"
C2_OneRowPerItem ==
    [][ /\ \A id \in TaskIDs, f \in ProxyFiles :
              Cardinality(ItemRowsOf(taskItems', id, f)) <= 1
        /\ \A p \in Procs :
              (InsertingItem(p) /\ HasItem(taskItems, loc[p].id, CurrentItem(p).filename)) =>
                  /\ taskItems' = taskItems
                  /\ last' = Last0
                  /\ ~jobs'[loc[p].gid].rec
      ]_vars

\* A job whose gid was offered to CreateTaskItem and ignored: the pair's row
\* holds the gid of the earlier dispatch.
C2_Witness ==
    \E g \in DOMAIN jobs :
        /\ ~jobs[g].rec
        /\ \A p \in Procs : ~(pc[p] = "trig_item" /\ loc[p].gid = g)
        /\ \E i \in 1..Len(taskItems) :
              /\ taskItems[i].taskID = jobs[g].dir
              /\ taskItems[i].filename = jobs[g].out
              /\ taskItems[i].gid # g

\* C3: the persisted status of a row only moves downloading -> completed or
\* downloading|completed -> stopped; a stopped row stays stopped and no row
\* goes back to downloading.
AllowedMove(a, b) ==
    \/ a = b
    \/ a = "downloading" /\ b = "completed"
    \/ a \in {"downloading", "completed"} /\ b = "stopped"
C3_StatusMoves ==
    [][ \A id \in TaskIDs :
           (HasTask(tasks, id) /\ HasTask(tasks', id)) =>
               AllowedMove(TaskRow(tasks, id).status, TaskRow(tasks', id).status)
      ]_vars

\* C4: DeleteTask of a row that is downloading returns the error "cannot
\* delete running task" and changes nothing: no row, item, file or job is
\* touched and the request goes no further.
DeleteArrives == budget'.del = budget.del - 1
C4_DeleteRefusesRunning ==
    [][ (DeleteArrives /\ TaskStatus(tasks, TheID) = "downloading") =>
            /\ last'.op = "delete" /\ last'.code = 500
            /\ last'.err = "cannot delete running task"
            /\ pc' = pc
            /\ UNCHANGED << tasks, taskItems, dirs, files, jobs, nextGid, pending >>
      ]_vars

\* A delete was just refused while the task has item rows and jobs.
C4_Witness ==
    /\ last.op = "delete" /\ last.err = "cannot delete running task"
    /\ TaskStatus(tasks, TheID) = "downloading"
    /\ GetTaskItems(taskItems, TheID) # << >>
    /\ TheID \in dirs

\* C5: StopTask followed by DeleteTask both return without error, and when
\* the DeleteTask returns the task has no row, no item rows and no directory,
\* and every job whose gid was recorded for it has had its cancel requested.
DeleteReturns(p) == pc[p] = "dl_row" /\ pc'[p] = "idle"
C5_StopThenDeleteClean ==
    [][ \A p \in Procs :
           (DeleteReturns(p) /\ loc[p].status = "stopped") =>
               /\ last'.op = "delete" /\ last'.code = 200
               /\ ~HasTask(tasks', loc[p].id)
               /\ GetTaskItems(taskItems', loc[p].id) = << >>
               /\ loc[p].id \notin dirs'
               /\ \A g \in DOMAIN jobs' :
                     (jobs'[g].dir = loc[p].id /\ jobs'[g].rec) => jobs'[g].creq
      ]_vars

\* C6: a segment or key answered from the cache directory has no sidecar
\* beside it at the moment it is sent, whatever the engine and DeleteTask do
\* between the request's checks.
C6_ServedOnlyComplete ==
    (last.op = "file" /\ last.code = 200 /\ last.body[1] = "disk") =>
        ~FileExists(files, last.body[2], Sidecar(last.body[3]))

\* C7: when GetTasks handles a row it listed as downloading with total N > 0
\* and N item rows of the task have a complete file (present, no sidecar), the
\* record it returns says completed with downloaded = N, in that response,
\* and the detached status update is started.
CompleteItems(id) ==
    {i \in 1..Len(taskItems) :
        /\ taskItems[i].taskID = id
        /\ << id, taskItems[i].filename >> \in files
        /\ << id, Sidecar(taskItems[i].filename) >> \notin files}
Counting(p) == pc[p] = "gt_count" /\ (pc'[p] # pc[p] \/ loc'[p] # loc[p])
Listed(p) == loc[p].snap[loc[p].idx]
ReportOf(p) == IF pc'[p] = "idle" THEN last'.body[loc[p].idx] ELSE loc'[p].rep[loc[p].idx]
C7_CompletedInSameResponse ==
    [][ \A p \in Procs :
           (/\ Counting(p)
            /\ Listed(p).status = "downloading"
            /\ Listed(p).totalSegments > 0
            /\ Cardinality(CompleteItems(Listed(p).id)) >= Listed(p).totalSegments) =>
               /\ ReportOf(p).id = Listed(p).id
               /\ ReportOf(p).status = "completed"
               /\ ReportOf(p).downloaded = Listed(p).totalSegments
               /\ ReportOf(p).total = Listed(p).totalSegments
               /\ pending'[Listed(p).id] = pending[Listed(p).id] + 1
      ]_vars

\* A response reports completed N/N while the row still says downloading.
C7_Witness ==
    /\ last.op = "list" /\ Len(last.body) = 1
    /\ last.body[1].status = "completed"
    /\ last.body[1].total >= 1
    /\ last.body[1].downloaded = last.body[1].total
    /\ TaskStatus(tasks, last.body[1].id) = "downloading"
    /\ pending[last.body[1].id] > 0

\* C8: a record that GetTasks turns to completed belongs to a task whose
\* segment files are all present and complete; key files do not stand in for
\* a segment.
SegmentFiles ==
    {SegFilename(i, upstream[i].uri) : i \in {j \in 1..Len(upstream) : upstream[j].uri # ""}}
SegmentsComplete(id) ==
    \A f \in SegmentFiles : << id, f >> \in files /\ << id, Sidecar(f) >> \notin files
C8_CompletedNeedsSegments ==
    last.op = "list" =>
        \A i \in 1..Len(last.body) :
            (last.body[i].status = "completed" /\ last.body[i].flip) =>
                SegmentsComplete(last.body[i].id)

\* C9: while the row is stopped, no step of a playlist request changes the
\* row, the item rows or the engine's jobs, or starts a dispatch: a request
\* that arrives is answered with the stored playlist, and the detached
\* creation of a request already past that check fails and ends.
PlayerArrives == budget'.create = budget.create - 1
PlayerStep(p) ==
    pc[p] \in {"m3u8_fetch", "go_create"} /\ pc'[p] # pc[p] /\ loc[p].id = TheID
C9_StoppedStaysStopped ==
    [][ (TaskStatus(tasks, TheID) = "stopped"
            /\ (PlayerArrives \/ \E p \in Procs : PlayerStep(p))) =>
            /\ tasks' = tasks /\ taskItems' = taskItems /\ jobs' = jobs
            /\ \A p \in Procs : Dispatching(p)' => Dispatching(p)
            /\ PlayerArrives =>
                  /\ last'.code = 200
                  /\ last'.body = TaskRow(tasks, TheID).proxiedContent
                  /\ pc' = pc
            /\ \A p \in Procs :
                  (pc[p] = "go_create" /\ pc'[p] # pc[p]) =>
                      last'.err = "failed to create task" /\ pc'[p] = "idle"
      ]_vars

\* The detached creation of a playlist request just failed on a stopped row.
C9_Witness ==
    /\ last.op = "go" /\ last.err = "failed to create task"
    /\ TaskStatus(tasks, TheID) = "stopped"

\* C10: HandleAdd answers 409 exactly when the fingerprint of the URL has a
\* row, whatever its status, and then starts nothing; on 409 no state
\* changes. startDownloadFromURL, finding the row downloading or completed,
\* returns "task already exists" before any fetch and changes nothing.
AddArrives == budget'.add = budget.add - 1
AddedURL ==
    IF last'.code = 409 THEN last'.body[1]
    ELSE loc'[CHOOSE p \in Procs : pc[p] = "idle" /\ pc'[p] = "sd_check"].url
C10_AddConflict ==
    [][ /\ AddArrives =>
              /\ last'.op = "add" /\ last'.code \in {200, 409}
              /\ (last'.code = 409) <=> HasTask(tasks, GetTaskID(AddedURL))
              /\ last'.code = 409 =>
                    /\ pc' = pc /\ loc' = loc
                    /\ UNCHANGED << tasks, taskItems, dirs, files, jobs, nextGid >>
        /\ \A p \in Procs :
              (/\ pc[p] = "sd_check" /\ pc'[p] # pc[p]
               /\ TaskStatus(tasks, loc[p].id) \in {"downloading", "completed"}) =>
                  /\ last'.err = "task already exists"
                  /\ pc'[p] = "idle"
                  /\ UNCHANGED << tasks, taskItems, dirs, files, jobs, nextGid >>
      ]_vars

\* An add was just refused for a fingerprint whose row is stopped.
C10_Witness ==
    /\ last.op = "add" /\ last.code = 409 /\ last.err = "stopped"
    /\ last.body = << VariantURL >>
    /\ TaskStatus(tasks, TheID) = "stopped"

\* C11: a playlist request for a fingerprint whose row stores a non-empty
\* body is answered 200 with exactly that body in its first step: no fetch
\* (the goroutine goes nowhere), no row or item row written, no directory
\* made, no job submitted, whatever the status of the row.
StoredBody(id) == IF HasTask(tasks, id) THEN TaskRow(tasks, id).proxiedContent ELSE << >>
C11_StoredBodyServed ==
    [][ (PlayerArrives /\ StoredBody(TheID) # << >>) =>
            /\ last'.op = "m3u8" /\ last'.code = 200
            /\ last'.body = StoredBody(TheID)
            /\ pc' = pc /\ loc' = loc
            /\ UNCHANGED << tasks, taskItems, dirs, files, jobs, nextGid, pending >>
      ]_vars

\* A stopped task created by an API add: the player is answered with the
\* stored body, which is not what a fresh rewrite for this player would be.
C11_Witness ==
    /\ last.op = "m3u8" /\ last.code = 200
    /\ TaskStatus(tasks, TheID) = "stopped"
    /\ last.body = StoredBody(TheID)
    /\ last.body # RewriteVariant(upstream, HostBase, TheID, VariantURL).text

\* C12: while DeleteTask has not passed the removal of the directory and its
\* check, it writes no row; when os.RemoveAll fails or the directory is still
\* there, it returns an error and ends with the tables as they were, so the
\* row a retry needs is still what it was.
C12_FailedCleanupKeepsRows ==
    [][ \A p \in Procs :
           /\ ((pc[p] \in {"dl_gids", "dl_cancel", "dl_rm", "dl_stat"})
                  /\ (pc'[p] # pc[p] \/ loc'[p] # loc[p])) =>
                 /\ tasks' = tasks /\ taskItems' = taskItems
           /\ (pc[p] = "dl_stat" /\ pc'[p] # pc[p] /\ loc[p].id \in dirs) =>
                 /\ last'.op = "delete" /\ last'.code = 500
                 /\ last'.err = "directory still exists"
                 /\ pc'[p] = "idle"
           /\ (pc[p] = "dl_rm" /\ pc'[p] = "idle") =>
                 /\ last'.op = "delete" /\ last'.code = 500
                 /\ last'.err = "failed to remove files"
                 /\ UNCHANGED << dirs, files >>
      ]_vars

\* A delete just failed on a directory that came back; the stopped row and
\* its item rows are there and another delete request is still to come.
C12_Witness ==
    /\ last.op = "delete" /\ last.err = "directory still exists"
    /\ TaskStatus(tasks, TheID) = "stopped"
    /\ GetTaskItems(taskItems, TheID) # << >>
    /\ budget.del > 0

\* C13: when AddUri fails for an item, triggerDownloads inserts no item row
\* for it, reports nothing, and goes on with the next item of the list (or
\* ends after the last one).
SubmissionFails(p) ==
    /\ pc[p] = "trig"
    /\ pc'[p] # pc[p] \/ loc'[p] # loc[p]
    /\ ~FileExists(files, loc[p].id, CurrentItem(p).filename)
    /\ jobs' = jobs
C13_FailedSubmissionSkipped ==
    [][ \A p \in Procs :
           SubmissionFails(p) =>
               /\ taskItems' = taskItems
               /\ last' = Last0
               /\ IF loc[p].idx < Len(Plan(p).items)
                  THEN pc'[p] = "trig" /\ loc'[p].idx = loc[p].idx + 1
                  ELSE pc'[p] = "idle"
      ]_vars

\* The first item's submission failed and the second item was submitted.
C13_Witness ==
    \E p \in Procs :
        /\ pc[p] = "trig_item" /\ loc[p].idx = 2
        /\ DOMAIN jobs = {1} /\ jobs[1].out = Plan(p).items[2].filename
        /\ taskItems = << >> /\ files = {}

\* C14: RewriteVariant's total is the number of entries with a URI, and its
\* segment items are those entries in order, named by 5-digit numbers that
\* increase strictly and start at 00001.
Rewritten == last.op = "rewrite"
SegEntries(p) == SelectSeq([i \in 1..Len(p) |-> i], LAMBDA i : p[i].uri # "")
SegItems(items) == SelectSeq(items, LAMBDA it : it.type = "ts")
KeyItems(items) == SelectSeq(items, LAMBDA it : it.type = "key")
SeqNum(filename) ==
    LET d == filename[1]
    IN d[1] * 10000 + d[2] * 1000 + d[3] * 100 + d[4] * 10 + d[5]
C14_SegmentNumbering ==
    Rewritten =>
        LET segs == SegItems(last.body.items)
            ents == SegEntries(upstream)
        IN /\ last.body.total = Len(ents)
           /\ Len(segs) = Len(ents)
           /\ \A k \in 1..Len(segs) :
                 /\ segs[k].url = resolveURL(VariantURL, upstream[ents[k]].uri)
                 /\ Len(segs[k].filename[1]) = 5
                 /\ k > 1 => SeqNum(segs[k].filename) > SeqNum(segs[k - 1].filename)
           /\ segs # << >> => SeqNum(segs[1].filename) = 1

\* C15: the key items of one RewriteVariant call are one per distinct
\* resolved key URL, in the order the keys are first met, while every entry
\* with a key has its key URI rewritten to the proxy's key path.
KeyURLs(p) == {resolveURL(VariantURL, p[i].key) : i \in {j \in 1..Len(p) : p[j].key # ""}}
FirstUse(p, u) ==
    CHOOSE i \in 1..Len(p) :
        /\ p[i].key # "" /\ resolveURL(VariantURL, p[i].key) = u
        /\ \A j \in 1..(i - 1) : p[j].key = "" \/ resolveURL(VariantURL, p[j].key) # u
C15_OneItemPerKey ==
    Rewritten =>
        LET keys == KeyItems(last.body.items)
        IN /\ Len(keys) = Cardinality(KeyURLs(upstream))
           /\ {keys[k].url : k \in 1..Len(keys)} = KeyURLs(upstream)
           /\ \A k \in 1..Len(keys) :
                 /\ keys[k].filename = KeyFilename(keys[k].url)
                 /\ k > 1 => FirstUse(upstream, keys[k - 1].url) < FirstUse(upstream, keys[k].url)
           /\ \A i \in 1..Len(upstream) :
                 upstream[i].key # "" =>
                     last.body.text[i].key =
                         << HostBase, "key", TheID,
                            KeyFilename(resolveURL(VariantURL, upstream[i].key)),
                            QueryEscape(resolveURL(VariantURL, upstream[i].key)) >>

\* Every entry of the longest playlist carries the same key: one key item.
C15_Witness ==
    /\ Rewritten
    /\ Len(upstream) = MaxLen
    /\ \A i \in 1..Len(upstream) : upstream[i].key = "k1" /\ upstream[i].uri # ""
    /\ Len(KeyItems(last.body.items)) = 1
    /\ Len(SegItems(last.body.items)) = MaxLen

\* C16: no step of a playlist request for the master playlist writes a row
\* or an item row, makes a directory or a file, or submits a job; its answer
\* lists as many variants as the master playlist, each with its URI rewritten
\* to {proxyBase}/m3u8/{encoded resolved URL} and nothing else changed.
MasterArrives == budget'.master = budget.master - 1
MasterStep(p) == pc[p] = "m3u8_fetch" /\ loc[p].url = MasterURL /\ pc'[p] # pc[p]
C16_MasterCreatesNothing ==
    [][ \A p \in Procs :
           (MasterStep(p) \/ (MasterArrives /\ pc'[p] # pc[p])) =>
               /\ UNCHANGED << tasks, taskItems, dirs, files, jobs, nextGid, pending >>
               /\ pc'[p] \in {"idle", "m3u8_fetch"}
               /\ (MasterStep(p) /\ last'.code = 200) =>
                     /\ Len(last'.body) = Len(MasterVariants)
                     /\ \A i \in 1..Len(MasterVariants) :
                           /\ last'.body[i].uri =
                                 << HostBase, "m3u8",
                                    QueryEscape(resolveURL(MasterURL, MasterVariants[i].uri)) >>
                           /\ last'.body[i].bandwidth = MasterVariants[i].bandwidth
      ]_vars

\* A master playlist was just answered and nothing exists: no row, no
\* directory, no job.
C16_Witness ==
    /\ last.op = "m3u8" /\ last.code = 200
    /\ last.body = RewriteMaster(MasterVariants, HostBase, MasterURL)
    /\ tasks = << >> /\ taskItems = << >> /\ dirs = {} /\ jobs = << >>

\* C17: when the upstream fetch or the parse fails, the playlist request is
\* answered 502 and ends there: no second fetch, no row created or changed,
\* no item row, no job.
FetchReturns(p) == pc[p] = "m3u8_fetch" /\ pc'[p] # pc[p]
C17_UpstreamFailureIsBadGateway ==
    [][ \A p \in Procs :
           FetchReturns(p) =>
               /\ last'.op = "m3u8" /\ last'.code \in {200, 502}
               /\ last'.code = 502 =>
                     /\ pc'[p] = "idle"
                     /\ UNCHANGED << tasks, taskItems, dirs, files, jobs, nextGid, pending >>
      ]_vars

\* A media-playlist request just failed with 502 and no task exists.
C17_Witness ==
    /\ last.op = "m3u8" /\ last.code = 502
    /\ budget.create < 2 /\ budget.master = 0 /\ budget.add = 0
    /\ tasks = << >> /\ jobs = << >>
    /\ pc[last.proc] = "idle"

\* C18: no step of a segment or key request, served from the cache or passed
\* through, submits a job or changes a row, an item row, a directory or a
\* file.
FileArrives == budget'.file = budget.file - 1
FileStep(p) == pc[p] \in {"pf_sidecar", "pf_serve"} /\ pc'[p] # pc[p]
C18_FileRequestReadsOnly ==
    [][ (FileArrives \/ \E p \in Procs : FileStep(p)) =>
            UNCHANGED << tasks, taskItems, dirs, files, jobs, nextGid, pending >>
      ]_vars

\* A request was just passed through to the origin while the task has a row
\* and the requested file is not in the cache.
C18_Witness ==
    /\ last.op = "file" /\ last.code = 200 /\ last.body = << "upstream" >>
    /\ HasTask(tasks, TheID)
    /\ \A f \in ProxyFiles : ~FileExists(files, TheID, f)

\* C19: a goroutine enters the dispatch loop only in the step in which its
\* own CreateTask succeeded, and among the jobs the engine received while one
\* row of a task existed no two are for the same (task id, filename).
EntersDispatch(p) == ~Dispatching(p) /\ Dispatching(p)'
SameRowSameFile(g, h) ==
    /\ jobs[g].dir = jobs[h].dir
    /\ jobs[g].out = jobs[h].out
    /\ jobs[g].life = jobs[h].life
    /\ jobs[g].life # -1
C19_OnePipelinePerRow ==
    [][ /\ \A p \in Procs :
              EntersDispatch(p) =>
                  /\ Creating(p)
                  /\ ~HasTask(tasks, loc[p].id)
                  /\ last'.err = "created"
        /\ \A g, h \in DOMAIN jobs' : (SameRowSameFile(g, h))' => g = h
      ]_vars

\* C20: asking for the URI the rewriter wrote for a source URL u, the
\* segment or key handler recovers the task id and the file name the
\* rewriter put in the path and decodes the last component to u exactly.
C20_RoundTrip ==
    last.op \in {"s", "k"} =>
        /\ last.code = 200
        /\ last.body = << HexTaskID, PlainFilename, upstream >>

\* C21: DeleteTask goes through its steps in one order (cancel and forget
\* the recorded gids, remove the directory, check it is gone, delete the item
\* rows, delete the row), and after each of its steps a task without a row
\* has no item rows and no directory and every job recorded for it has had
\* its cancel requested.
DeleteStep(p) ==
    /\ pc[p] \in {"dl_gids", "dl_cancel", "dl_rm", "dl_stat", "dl_items", "dl_row"}
    /\ pc'[p] # pc[p] \/ loc'[p] # loc[p]
DeleteInOrder(p) ==
    /\ pc[p] = "dl_gids" =>
          /\ pc'[p] \in {"dl_cancel", "dl_rm"}
          /\ UNCHANGED << tasks, taskItems, dirs, files, jobs >>
    /\ pc[p] = "dl_cancel" =>
          /\ pc'[p] \in {"dl_cancel", "dl_rm"}
          /\ UNCHANGED << tasks, taskItems, dirs, files >>
    /\ pc[p] = "dl_rm" =>
          /\ pc'[p] \in {"dl_stat", "idle"}
          /\ UNCHANGED << tasks, taskItems >>
    /\ pc[p] = "dl_stat" =>
          /\ pc'[p] \in {"dl_items", "idle"}
          /\ pc'[p] = "dl_items" <=> loc[p].id \notin dirs
          /\ UNCHANGED << tasks, taskItems, dirs, files, jobs >>
    /\ pc[p] = "dl_items" =>
          /\ pc'[p] = "dl_row"
          /\ GetTaskItems(taskItems', loc[p].id) = << >>
          /\ UNCHANGED << tasks, dirs, files, jobs >>
    /\ pc[p] = "dl_row" =>
          /\ pc'[p] = "idle"
          /\ ~HasTask(tasks', loc[p].id)
          /\ last'.op = "delete" /\ last'.code = 200
          /\ UNCHANGED << taskItems, dirs, files, jobs >>
NothingLeft(id) ==
    /\ GetTaskItems(taskItems, id) = << >>
    /\ id \notin dirs
    /\ \A g \in DOMAIN jobs : (jobs[g].dir = id /\ jobs[g].rec) => jobs[g].creq
C21_DeleteOrder ==
    [][ \A p \in Procs :
           DeleteStep(p) =>
               /\ DeleteInOrder(p)
               /\ ~HasTask(tasks', loc[p].id) => NothingLeft(loc[p].id)'
      ]_vars

\* C22: StopTask writes stopped in its first step, before any cancel; when
\* that update fails it answers the error and cancels nothing; a cancel that
\* fails changes nothing and the loop goes on to the next gid, and after the
\* last gid StopTask answers 200.
StopArrives == budget'.stop = budget.stop - 1
StopCancels(p) == pc[p] = "st_cancel" /\ (pc'[p] # pc[p] \/ loc'[p] # loc[p])
C22_StopMarksThenCancels ==
    [][ /\ StopArrives =>
              /\ jobs' = jobs
              /\ IF last'.op = "stop"
                 THEN /\ last'.code = 500
                      /\ pc' = pc /\ tasks' = tasks
                 ELSE /\ \E p \in Procs : pc[p] = "idle" /\ pc'[p] = "st_gids"
                      /\ tasks' = UpdateTaskStatus(tasks, TheID, "stopped")
                      /\ HasTask(tasks, TheID) => TaskStatus(tasks', TheID) = "stopped"
        /\ \A p \in Procs :
              /\ pc'[p] = "st_gids" => (pc[p] = "st_gids" \/ StopArrives)
              /\ pc'[p] = "st_cancel" => pc[p] \in {"st_gids", "st_cancel"}
              /\ StopCancels(p) =>
                    /\ jobs' \in {jobs, ForceRemove(jobs, loc[p].gids[loc[p].idx])}
                    /\ tasks' = tasks /\ taskItems' = taskItems
                    /\ IF loc[p].idx < Len(loc[p].gids)
                       THEN pc'[p] = "st_cancel" /\ loc'[p].idx = loc[p].idx + 1
                       ELSE pc'[p] = "idle" /\ last'.op = "stop" /\ last'.code = 200
      ]_vars

\* StopTask just answered 200 for two gids: the cancel of the first failed,
\* the second job was cancelled all the same.
C22_Witness ==
    /\ last.op = "stop" /\ last.code = 200 /\ last.body = << 1, 2 >>
    /\ ~jobs[1].creq /\ jobs[1].st \in {"waiting", "active"}
    /\ jobs[2].creq /\ jobs[2].st = "removed"
    /\ TaskStatus(tasks, TheID) = "stopped"

\* C23: whenever DeleteTask removes the directory of a task, the row of the
\* task does not say downloading at that moment.
RemovesDirectory(p) == pc[p] = "dl_rm" /\ pc'[p] = "dl_stat"
C23_RemovedOnlyWhenNotDownloading ==
    [][ \A p \in Procs :
           RemovesDirectory(p) => TaskStatus(tasks, loc[p].id) # "downloading"
      ]_vars

\* C24: at an item of the triggerDownloads loop, the item is skipped when its
\* file is complete (present, no sidecar) and then no submission happens;
\* when its file is absent, or present with a sidecar, the item is submitted
\* and not skipped.
Complete(id, filename) ==
    FileExists(files, id, filename) /\ ~FileExists(files, id, Sidecar(filename))
C24_SubmitUnlessComplete ==
    \A p \in Procs :
        (pc[p] = "trig" /\ nextGid <= MaxGid) =>
            IF Complete(loc[p].id, CurrentItem(p).filename)
            THEN (ENABLED TriggerSkip(p)) /\ ~(ENABLED TriggerAddUri(p))
            ELSE (ENABLED TriggerAddUri(p)) /\ ~(ENABLED TriggerSkip(p))

\* C25: every item row carries the gid of a job the engine accepted for the
\* row's task and filename, and a row appears only in the step after that
\* submission, by the loop that holds the returned gid.
HandleOfSubmission(js, r) ==
    /\ r.gid \in DOMAIN js
    /\ js[r.gid].dir = r.taskID
    /\ js[r.gid].out = r.filename
C25_RowsCarryReturnedHandle ==
    [][ /\ \A i \in 1..Len(taskItems') : HandleOfSubmission(jobs', taskItems'[i])
        /\ Len(taskItems') > Len(taskItems) =>
              \E p \in Procs :
                  /\ InsertingItem(p)
                  /\ HandleOfSubmission(jobs, [taskID |-> loc[p].id,
                                               filename |-> CurrentItem(p).filename,
                                               gid |-> loc[p].gid])
                  /\ taskItems' = Append(taskItems,
                                         [taskID |-> loc[p].id,
                                          filename |-> CurrentItem(p).filename,
                                          gid |-> loc[p].gid, url |-> CurrentItem(p).url])
      ]_vars

\* The submission of the first item failed and the second was accepted: the
\* only row is the second item's, with the gid the engine gave it.
C25_Witness ==
    /\ Len(taskItems) = 1
    /\ taskItems[1].gid = 1
    /\ taskItems[1].filename = KeyFilename(resolveURL(VariantURL, "k1"))
    /\ jobs[1].out = taskItems[1].filename
    /\ DOMAIN jobs = {1}
    /\ upstream = PlSegKey
    /\ \A p \in Procs : pc[p] = "idle"

\* C26: for a task with a positive total that is never stopped or deleted,
\* once every item of its plan has a row and a complete file, a GetTasks
\* call that counts it leads to the row saying completed, and a completed
\* row stays completed; the step of GetTasks that reports the task does not
\* write the row itself.
PlanItems == RewriteVariant(upstream, HostBase, TheID, VariantURL).items
AllDownloaded(id) ==
    /\ HasTask(tasks, id)
    /\ TaskRow(tasks, id).totalSegments > 0
    /\ \A k \in 1..Len(PlanItems) :
          HasItem(taskItems, id, PlanItems[k].filename) /\ Complete(id, PlanItems[k].filename)
CountsWhenDownloaded(p) ==
    pc[p] = "gt_count" /\ Listed(p).id = TheID /\ AllDownloaded(TheID)
C27_FailedCreateIsBenign ==
    [][ \A p \in Procs :
           /\ (Creating(p) /\ HasTask(tasks, loc[p].id)) =>
                 /\ tasks' = tasks
                 /\ last'.op = "go"
                 /\ last'.err \in {"failed to create task", "error starting task"}
                 /\ pc'[p] = "idle"
                 /\ UNCHANGED << taskItems, files, jobs, nextGid, pending >>
                 /\ dirs \subseteq dirs'
           /\ (FetchReturns(p) /\ loc[p].url = VariantURL /\ HasTask(tasks, loc[p].id)
                  /\ last'.code # 502) =>
                 /\ last'.code = 200
                 /\ last'.body = RewriteVariant(upstream, HostBase, TheID, VariantURL).text
                 /\ tasks' = tasks
      ]_vars

\* An API add lost the race against a playlist request: its CreateTask just
\* failed, and the row is the player's, with its creation time and its body.
C27_Witness ==
    /\ last.op = "go" /\ last.err = "error starting task"
    /\ clock = 2
    /\ TaskStatus(tasks, TheID) = "downloading"
    /\ TaskRow(tasks, TheID).createdTime = 0
    /\ TaskRow(tasks, TheID).proxiedContent =
           RewriteVariant(upstream, HostBase, TheID, VariantURL).text

\* C28: in every state, every item row belongs to a task that has a row.
C28_ItemsHaveTask ==
    \A i \in 1..Len(taskItems) : HasTask(tasks, taskItems[i].taskID)

\* C29: when StopTask or DeleteTask reads the gids of a task that has a row,
\* the list holds the gid of every job the engine has accepted for the task
\* since that row was created.
ReadsGIDs(p) == pc[p] \in {"st_gids", "dl_gids"} /\ pc'[p] # pc[p]
AcceptedFor(id) ==
    {g \in DOMAIN jobs : jobs[g].dir = id /\ jobs[g].life = RowBirth(tasks, id)}
C29_ReadsCoverAcceptedJobs ==
    [][ \A p \in Procs :
           (ReadsGIDs(p) /\ HasTask(tasks, loc[p].id)) =>
               LET gids == GetTaskItemGIDs(taskItems, loc[p].id)
               IN AcceptedFor(loc[p].id) \subseteq {gids[i] : i \in 1..Len(gids)}
      ]_vars

\* C30: every record of a GetTasks response has 0 <= downloaded <= total,
\* and a record that says completed has downloaded = total.
C30_ProgressWithinTotal ==
    last.op = "list" =>
        \A i \in 1..Len(last.body) :
            /\ 0 <= last.body[i].downloaded
            /\ last.body[i].downloaded <= last.body[i].total
            /\ last.body[i].status = "completed" => last.body[i].downloaded = last.body[i].total

====
